---- MODULE Spec2Model ----
(***************************************************************************)
(* A model of src/image_processor.py (ImageProcessorApp): the processed    *)
(* buffer and its undo history, the threshold and flood-fill background    *)
(* removal, the scale / inches / dpi bookkeeping and the reprocess guard.  *)
(*                                                                         *)
(* Numbers.  Scale factors and inch values are held in hundredths (100 is  *)
(* 1.0): every value the handlers store is either typed with two decimals  *)
(* or the result of round(x, 2).  Pixels are tuples <<r,g,b>> or           *)
(* <<r,g,b,a>>; a buffer is a record with its size, mode and row-major     *)
(* pixel sequence.                                                         *)
(***************************************************************************)
EXTENDS Integers, Sequences, FiniteSets, TLC

\* ------------------------------------------------------------- bounds
\* Canvas widget size in pixels (winfo_width / winfo_height): the window's.
CanvasW == 30
CanvasH == 12
\* Length of the one-row strip image used to fill the undo history.
StripLen == 22
\* Largest processed buffer (in pixels) the bounded runs build.
MaxPixels == 40
\* Largest input buffer (in pixels) of the threshold pass on its own.
PassLen == 2

\* ---------------------------------------------------- program constants
max_history == 20
DEFAULT_TOLERANCE == 32
DEFAULT_THRESHOLD == 240
DEFAULT_DPI == 300
DpiValues == {72, 150, 300, 600}

\* Python's None where an image is expected, and where a pixel position is.
None == [size |-> <<0, 0>>, mode |-> "None", px |-> <<>>, resampled |-> FALSE,
         shared |-> FALSE]
NoPixel == <<>>

\* ------------------------------------------------------------ numbers
Abs(n) == IF n < 0 THEN -n ELSE n

\* floor(n / d) for d > 0 and any integer n.
FloorDiv(n, d) == IF n >= 0 THEN n \div d ELSE -((-n + d - 1) \div d)

\* int(n / d): Python's int() truncates toward zero.
TruncDiv(n, d) == IF n >= 0 THEN n \div d ELSE -((-n) \div d)

\* The integer nearest to n / d (n >= 0, d > 0), exact ties to the even one.
RoundHalfEven(n, d) ==
    LET q == n \div d
        r == n % d
    IN  IF 2 * r > d THEN q + 1
        ELSE IF 2 * r < d THEN q
        ELSE IF q % 2 = 0 THEN q ELSE q + 1

\* ------------------------------------------------------------- floats
\* Python's float is the IEEE-754 double: 53 bits of mantissa, each
\* operation rounded to the nearest double, ties to the even mantissa.  A
\* positive double is kept as [m, e], its value m * 2^e with
\* 2^52 <= m < 2^53; m is a natural number in five limbs of 15 bits, lowest
\* first.
Limb == 2^15
Limbs == 5
BigZero == <<0, 0, 0, 0, 0>>

\* The limbs of n, 0 <= n < 2^31.
BigOf(n) == <<n % Limb, (n \div Limb) % Limb, n \div (Limb * Limb), 0, 0>>

\* The number a holds, when it is below 2^30.
BigToInt(a) == a[1] + Limb * a[2]

RECURSIVE BigCarry(_, _, _)
BigCarry(a, i, c) ==
    IF i > Limbs THEN <<>>
    ELSE <<(a[i] + c) % Limb>> \o BigCarry(a, i + 1, (a[i] + c) \div Limb)

BigAdd(a, b) ==
    BigCarry(<<a[1] + b[1], a[2] + b[2], a[3] + b[3], a[4] + b[4], a[5] + b[5]>>,
             1, 0)

\* a * k for 0 <= k < 2^15.
BigMulSmall(a, k) ==
    BigCarry(<<a[1] * k, a[2] * k, a[3] * k, a[4] * k, a[5] * k>>, 1, 0)

RECURSIVE BigBorrow(_, _, _, _)
BigBorrow(a, b, i, c) ==
    IF i > Limbs THEN <<>>
    ELSE LET d == a[i] - b[i] - c
         IN  <<IF d < 0 THEN d + Limb ELSE d>>
               \o BigBorrow(a, b, i + 1, IF d < 0 THEN 1 ELSE 0)

\* a - b for a >= b.
BigSub(a, b) == BigBorrow(a, b, 1, 0)

RECURSIVE BigGeqFrom(_, _, _)
BigGeqFrom(a, b, i) ==
    IF i = 0 THEN TRUE
    ELSE IF a[i] # b[i] THEN a[i] > b[i]
    ELSE BigGeqFrom(a, b, i - 1)

BigGeq(a, b) == BigGeqFrom(a, b, Limbs)

\* Bit i of a, bit 0 the lowest.
BigBit(a, i) == (a[(i \div 15) + 1] \div (2^(i % 15))) % 2

\* The number of bits of a: 0 for zero.
BigLen(a) ==
    LET set == {i \in 0..(15 * Limbs - 1) : BigBit(a, i) = 1}
    IN  IF set = {} THEN 0
        ELSE 1 + CHOOSE i \in set : \A j \in set : j <= i

\* Limb i of a, 0 outside the limbs a has.
BigLimb(a, i) == IF i >= 1 /\ i <= Limbs THEN a[i] ELSE 0

\* a * 2^k, for a result that fits the limbs.
BigShl(a, k) ==
    LET dl == k \div 15
        db == k % 15
        limb(i) == ((BigLimb(a, i - dl) * 2^db) % Limb)
                     + (BigLimb(a, i - dl - 1) \div 2^(15 - db))
    IN  <<limb(1), limb(2), limb(3), limb(4), limb(5)>>

\* floor(a / 2^d).
BigShr(a, d) ==
    LET dl == d \div 15
        db == d % 15
        limb(i) == (BigLimb(a, i + dl) \div 2^db)
                     + ((BigLimb(a, i + dl + 1) % 2^db) * 2^(15 - db))
    IN  <<limb(1), limb(2), limb(3), limb(4), limb(5)>>

\* The double nearest to (q + f) * 2^e, for a natural number q > 0 and a
\* fraction f that is zero, or (sticky) lies strictly between 0 and 1 and
\* far below the last bit kept.  The d lowest bits of q are dropped and the
\* rest rounded up when the bits dropped (and f) are more than half of the
\* last bit kept, or exactly half and the last bit kept is odd; a carry out
\* of the 53 bits moves the exponent.
F64Round(q, sticky, e) ==
    LET d == BigLen(q) - 53
        m0 == BigShr(q, d)
        up == /\ BigBit(q, d - 1) = 1
              /\ \/ sticky
                 \/ \E j \in 0..(d - 2) : BigBit(q, j) = 1
                 \/ BigBit(m0, 0) = 1
        m1 == IF up THEN BigAdd(m0, BigOf(1)) ELSE m0
    IN  IF d <= 0 THEN [m |-> BigShl(q, -d), e |-> e + d]
        ELSE IF BigLen(m1) > 53 THEN [m |-> BigShr(m1, 1), e |-> e + d + 1]
        ELSE [m |-> m1, e |-> e + d]

\* float(n) for an integer n > 0.
F64OfInt(n) == F64Round(BigOf(n), FALSE, 0)

\* 1.0 = 2^52 * 2^-52.
F64One == [m |-> <<0, 0, 0, 128, 0>>, e |-> -52]

\* The long division of r * 2^(t-1) by d, r < 2 * d, one quotient bit a
\* step; rq is <<remainder, quotient>>.
RECURSIVE F64DivLoop(_, _, _)
F64DivLoop(rq, d, t) ==
    IF t = 0 THEN rq
    ELSE IF BigGeq(rq[1], d)
    THEN F64DivLoop(<<BigMulSmall(BigSub(rq[1], d), 2),
                      BigAdd(BigMulSmall(rq[2], 2), BigOf(1))>>, d, t - 1)
    ELSE F64DivLoop(<<BigMulSmall(rq[1], 2), BigMulSmall(rq[2], 2)>>, d, t - 1)

\* a / b: 56 quotient bits, rounded to 53.
F64Div(a, b) ==
    LET rq == F64DivLoop(<<a.m, BigZero>>, b.m, 56)
    IN  F64Round(rq[2], rq[1] # BigZero, a.e - b.e - 55)

\* n * b for an integer n, 0 < n < 2^15.
F64MulInt(n, b) == F64Round(BigMulSmall(b.m, n), FALSE, b.e)

F64Less(a, b) == a.e < b.e \/ (a.e = b.e /\ ~BigGeq(a.m, b.m))

\* int(a), for a below 2^30.
F64Int(a) ==
    IF a.e >= 0 THEN BigToInt(BigShl(a.m, a.e))
    ELSE IF -a.e >= 53 THEN 0
    ELSE BigToInt(BigShr(a.m, -a.e))

\* ------------------------------------------------------------ buffers
\* A buffer: size <<w, h>>, mode "RGB" or "RGBA", px the row-major pixels.
\* resampled records that the buffer is an output of Image.resize; shared
\* that it is the very object self.original_image refers to, so that what
\* is written into it in place is written into the original.
Buffer(w, h, mode, px) ==
    [size |-> <<w, h>>, mode |-> mode, px |-> px, resampled |-> FALSE,
     shared |-> FALSE]

\* Image.copy(): a new object with the same content.
copy(img) == [img EXCEPT !.shared = FALSE]

\* Image.open reads the header of the file only; the pixel data are decoded
\* on first use.  A file cut short after its header opens, and raises
\* OSError when it is decoded.
Truncated(img) == [img EXCEPT !.px = <<>>]

Decodes(img) == Len(img.px) = img.size[1] * img.size[2]

\* The object Image.open returned, as self.original_image refers to it.
Opened(img) == [img EXCEPT !.shared = TRUE]

Width(img) == img.size[1]
Height(img) == img.size[2]

\* Position of pixel (x, y) in the row-major sequence of a w-wide buffer.
Idx(w, x, y) == y * w + x + 1

PixelAt(img, x, y) == img.px[Idx(Width(img), x, y)]

\* if img.mode != "RGBA": img = img.convert("RGBA").  An RGBA buffer stays
\* the object it is; otherwise a new one is made, each pixel gaining alpha
\* 255.
convert_RGBA(img) ==
    IF img.mode = "RGBA" THEN img
    ELSE [img EXCEPT !.mode = "RGBA", !.shared = FALSE,
                     !.px = [i \in 1..Len(img.px) |->
                               <<img.px[i][1], img.px[i][2], img.px[i][3], 255>>]]

\* Image.resize((tw, th), LANCZOS).  PIL hands back a copy when the size is
\* already (tw, th).  Otherwise the result has exactly tw x th pixels; the
\* kernel's blend of neighbouring samples is not modelled, each output pixel
\* takes the source pixel its centre falls in.
resize(img, tw, th) ==
    IF <<tw, th>> = img.size THEN [img EXCEPT !.resampled = TRUE, !.shared = FALSE]
    ELSE [size |-> <<tw, th>>, mode |-> img.mode, resampled |-> TRUE,
          shared |-> FALSE,
          px |-> [i \in 1..(tw * th) |->
                    LET x == (i - 1) % tw
                        y == (i - 1) \div tw
                    IN  PixelAt(img, (x * Width(img)) \div tw,
                                     (y * Height(img)) \div th)]]

\* The threshold pass with the test on any channel instead of on all three.
remove_white_background_any_channel(img, threshold) ==
    LET rgba == convert_RGBA(img)
    IN  [rgba EXCEPT !.px = [i \in 1..Len(rgba.px) |->
            LET item == rgba.px[i]
            IN  IF item[1] >= threshold \/ item[2] >= threshold
                   \/ item[3] >= threshold
                THEN <<255, 255, 255, 0>>
                ELSE item]]

\* remove_white_background: the threshold pass.  putdata writes into the
\* buffer the pass was given, unless that one had to be converted.
remove_white_background(img, threshold) ==
    LET rgba == convert_RGBA(img)
    IN  [rgba EXCEPT !.px = [i \in 1..Len(rgba.px) |->
            LET item == rgba.px[i]
            IN  IF item[1] >= threshold /\ item[2] >= threshold
                   /\ item[3] >= threshold
                THEN <<255, 255, 255, 0>>
                ELSE item]]

\* bg.remove: the external backend.  Its output is an RGBA image of the
\* input's size; which pixels it clears is the backend's business, and is
\* taken here to be the pixels of the colour found at the top-left corner.
bg_remove(img) ==
    LET rgba == convert_RGBA(img)
        corner == rgba.px[1]
    IN  [rgba EXCEPT !.shared = FALSE, !.px = [i \in 1..Len(rgba.px) |->
            LET item == rgba.px[i]
            IN  IF <<item[1], item[2], item[3]>> = <<corner[1], corner[2], corner[3]>>
                THEN <<item[1], item[2], item[3], 0>>
                ELSE item]]

\* ---------------------------------------------------------- flood fill
\* color_matches with "or" between the channels.
color_matches_any_channel(c1, c2, tolerance) ==
    \/ Abs(c1[1] - c2[1]) <= tolerance
    \/ Abs(c1[2] - c2[2]) <= tolerance
    \/ Abs(c1[3] - c2[3]) <= tolerance

color_matches(c1, c2, tolerance) ==
    /\ Abs(c1[1] - c2[1]) <= tolerance
    /\ Abs(c1[2] - c2[2]) <= tolerance
    /\ Abs(c1[3] - c2[3]) <= tolerance

\* The while-loop without "if (x, y) in visited: continue".
RECURSIVE bfs_revisits(_, _, _, _, _, _)
bfs_revisits(queue, visited, px, changed, evals, c) ==
    LET live == {k \in 1..Len(queue) :
                    /\ queue[k][1] >= 0 /\ queue[k][1] < c.w
                    /\ queue[k][2] >= 0 /\ queue[k][2] < c.h}
    IN  IF live = {}
        THEN [px |-> px, pixels_changed |-> changed, visited |-> visited,
              evals |-> evals]
        ELSE
          LET k == CHOOSE j \in live : \A z \in live : j <= z
              x == queue[k][1]
              y == queue[k][2]
              rest == SubSeq(queue, k + 1, Len(queue))
              i == Idx(c.w, x, y)
              cur == px[i]
              fill == cur[4] # 0 /\ color_matches(cur, c.target, c.tolerance)
          IN  bfs_revisits(IF fill
                           THEN rest \o << <<x + 1, y>>, <<x - 1, y>>,
                                           <<x, y + 1>>, <<x, y - 1>> >>
                           ELSE rest,
                           visited \cup {<<x, y>>},
                           IF fill THEN [px EXCEPT ![i] = <<cur[1], cur[2], cur[3], 0>>]
                           ELSE px,
                           IF fill THEN changed + 1 ELSE changed,
                           evals + 1, c)

\* The while-loop of flood_fill_transparent: queue is the deque, visited the
\* set, px the pixels being changed in place, changed the running count and
\* evals the number of pixels examined so far.  One call takes the queue up
\* to and including its first entry that is neither visited nor outside the
\* buffer (the entries before it are the ones the loop pops and skips), and
\* examines that pixel.
RECURSIVE bfs(_, _, _, _, _, _)
bfs(queue, visited, px, changed, evals, c) ==
    LET live == {k \in 1..Len(queue) :
                    /\ queue[k] \notin visited
                    /\ queue[k][1] >= 0 /\ queue[k][1] < c.w
                    /\ queue[k][2] >= 0 /\ queue[k][2] < c.h}
    IN  IF live = {}
        THEN [px |-> px, pixels_changed |-> changed, visited |-> visited,
              evals |-> evals]
        ELSE
          LET k == CHOOSE j \in live : \A z \in live : j <= z
              x == queue[k][1]
              y == queue[k][2]
              rest == SubSeq(queue, k + 1, Len(queue))
              i == Idx(c.w, x, y)
              cur == px[i]
              fill == cur[4] # 0 /\ color_matches(cur, c.target, c.tolerance)
          IN  bfs(IF fill
                  THEN rest \o << <<x + 1, y>>, <<x - 1, y>>,
                                  <<x, y + 1>>, <<x, y - 1>> >>
                  ELSE rest,
                  visited \cup {<<x, y>>},
                  IF fill THEN [px EXCEPT ![i] = <<cur[1], cur[2], cur[3], 0>>]
                  ELSE px,
                  IF fill THEN changed + 1 ELSE changed,
                  evals + 1, c)

\* flood_fill_transparent from "visited = set()" to the end of the loop, on
\* the RGBA buffer img: the pixels, pixels_changed, visited.
flood_fill_loop(img, start_x, start_y, target_color, tolerance) ==
    bfs(<< <<start_x, start_y>> >>, {}, img.px, 0, 0,
        [w |-> Width(img), h |-> Height(img),
         target |-> target_color, tolerance |-> tolerance])

\* -------------------------------------------------------------- state
VARIABLES
    AI_AVAILABLE,         \* the backgroundremover import succeeded
    original_image, processed_image, bg_removed_cache,
    edit_history,         \* oldest snapshot first
    magic_wand_mode, magic_wand_tolerance,
    scale_factor,         \* hundredths
    white_threshold, remove_background, bg_removal_method,
    width_inches, height_inches,      \* hundredths
    dpi, lock_aspect_ratio,
    updating_dimensions, processing,
    pc,                   \* "idle", or "ai_pump": update_preview is inside
                          \* remove_background_ai, at root.update()
    ai_img,               \* process_image's local img while pc = "ai_pump"
    ai_from,              \* the size of the original that img was copied from
    removal,              \* the input of the background-removal step the
                          \* last handler ran, if it ran one
    lastOp,               \* the handler that ran last and what it was given
    run                   \* the current run of flood fills and undos

vars == <<AI_AVAILABLE, original_image, processed_image, bg_removed_cache,
          edit_history, magic_wand_mode, magic_wand_tolerance, scale_factor,
          white_threshold, remove_background, bg_removal_method,
          width_inches, height_inches, dpi, lock_aspect_ratio,
          updating_dimensions, processing, pc, ai_img,
          ai_from, removal, lastOp, run>>

NoRemoval == [kind |-> "none", size |-> <<0, 0>>, resampled |-> FALSE,
              original_size |-> <<0, 0>>]

\* The application object as one value, for the handlers below.
Self ==
    [AI_AVAILABLE |-> AI_AVAILABLE,
     original_image |-> original_image,
     processed_image |-> processed_image,
     bg_removed_cache |-> bg_removed_cache,
     edit_history |-> edit_history,
     magic_wand_mode |-> magic_wand_mode,
     magic_wand_tolerance |-> magic_wand_tolerance,
     scale_factor |-> scale_factor,
     white_threshold |-> white_threshold,
     remove_background |-> remove_background,
     bg_removal_method |-> bg_removal_method,
     width_inches |-> width_inches,
     height_inches |-> height_inches,
     dpi |-> dpi,
     lock_aspect_ratio |-> lock_aspect_ratio,
     updating_dimensions |-> updating_dimensions,
     processing |-> processing,
     pc |-> pc,
     ai_img |-> ai_img,
     ai_from |-> ai_from,
     removal |-> NoRemoval]

\* __init__: the object as constructed.
NewApp(ai) ==
    [AI_AVAILABLE |-> ai,
     original_image |-> None,
     processed_image |-> None,
     bg_removed_cache |-> None,
     edit_history |-> <<>>,
     magic_wand_mode |-> FALSE,
     magic_wand_tolerance |-> DEFAULT_TOLERANCE,
     scale_factor |-> 100,
     white_threshold |-> DEFAULT_THRESHOLD,
     remove_background |-> FALSE,
     bg_removal_method |-> IF ai THEN "ai" ELSE "threshold",
     width_inches |-> 0,
     height_inches |-> 0,
     dpi |-> DEFAULT_DPI,
     lock_aspect_ratio |-> TRUE,
     updating_dimensions |-> FALSE,
     processing |-> FALSE,
     pc |-> "idle",
     ai_img |-> None,
     ai_from |-> <<0, 0>>,
     removal |-> NoRemoval]

\* What a write into the object img leaves: when img is the object the
\* original refers to, the original has the new content too.
InPlace(s, img) ==
    IF img.shared THEN [s EXCEPT !.original_image = img] ELSE s

\* export_jpeg: the processed buffer is flattened onto a new white
\* background ("background.paste(img_to_save, ...)") and that one is saved;
\* with no processed buffer a warning is shown.  The application's buffers
\* are only read.
export_jpeg(s) == s

\* export_tiff: "self.processed_image.save(...)".
export_tiff(s) == s

\* export_both: the two above into one folder.
export_both(s) == s

\* ----------------------------------------------------- history, undo
\* save_edit_state dropping the newest snapshot of a full stack.
save_edit_state_drops_newest(s) ==
    IF s.processed_image = None THEN s
    ELSE LET kept == IF Len(s.edit_history) >= max_history
                     THEN SubSeq(s.edit_history, 1, Len(s.edit_history) - 1)
                     ELSE s.edit_history
         IN  [s EXCEPT !.edit_history = Append(kept, copy(s.processed_image))]

\* save_edit_state: push a copy of the live buffer, dropping the oldest
\* snapshot first when the stack is full.
save_edit_state(s) ==
    IF s.processed_image = None THEN s
    ELSE LET kept == IF Len(s.edit_history) >= max_history
                     THEN Tail(s.edit_history)
                     ELSE s.edit_history
         IN  [s EXCEPT !.edit_history = Append(kept, copy(s.processed_image))]

\* list.pop(): the stack without its last element.
Front(h) == SubSeq(h, 1, Len(h) - 1)

\* undo_edit taking the oldest snapshot instead of the newest.
undo_edit_oldest(s) ==
    IF Len(s.edit_history) > 0
    THEN [s EXCEPT !.processed_image = s.edit_history[1],
                   !.edit_history = Tail(s.edit_history)]
    ELSE s

\* undo_edit
undo_edit(s) ==
    IF Len(s.edit_history) > 0
    THEN [s EXCEPT !.processed_image = s.edit_history[Len(s.edit_history)],
                   !.edit_history = Front(s.edit_history)]
    ELSE s

\* flood_fill_transparent(start_x, start_y).  A seed the pixel access
\* rejects raises IndexError after the snapshot was pushed and the buffer
\* converted; PIL's pixel access takes a negative index as counted from the
\* far edge.
flood_fill_transparent(s, start_x, start_y) ==
    IF s.processed_image = None THEN s
    ELSE
      LET s1 == save_edit_state(s)
          img == convert_RGBA(s1.processed_image)
          s2 == [s1 EXCEPT !.processed_image = img]
          w == Width(img)
          h == Height(img)
          ax == IF start_x < 0 THEN start_x + w ELSE start_x
          ay == IF start_y < 0 THEN start_y + h ELSE start_y
      IN  IF ax < 0 \/ ax >= w \/ ay < 0 \/ ay >= h
          THEN s2     \* IndexError: image index out of range
          ELSE
            LET target_color == PixelAt(img, ax, ay)
            IN  IF target_color[4] = 0
                THEN [s2 EXCEPT !.edit_history = Front(s2.edit_history)]
                ELSE
                  LET r == flood_fill_loop(img, start_x, start_y, target_color,
                                           s2.magic_wand_tolerance)
                      filled == [img EXCEPT !.px = r.px]
                  IN  InPlace(
                        [s2 EXCEPT !.processed_image = filled,
                                   !.removal = [kind |-> "flood",
                                                size |-> img.size,
                                                resampled |-> img.resampled,
                                                original_size |->
                                                  IF s.original_image = None
                                                  THEN <<0, 0>>
                                                  ELSE s.original_image.size]],
                        filled)

\* ------------------------------------------------- preview projection
\* min(a, b) of two floats: the first of the least.
F64Min(a, b) == IF F64Less(b, a) THEN b ELSE a

\* scale = min(canvas_width / img_width, canvas_height / img_height, 1.0),
\* a float.  With a canvas no smaller than the buffer both quotients are at
\* least 1.0 and the minimum is 1.0.
preview_scale(cw, ch, w, h) ==
    IF cw >= w /\ ch >= h THEN F64One
    ELSE F64Min(F64Min(F64Div(F64OfInt(cw), F64OfInt(w)),
                       F64Div(F64OfInt(ch), F64OfInt(h))),
                F64One)

\* int(n * scale) for an integer n > 0; n * 1.0 is n.
int_of_product(n, scale) ==
    IF scale = F64One THEN n ELSE F64Int(F64MulInt(n, scale))

\* int(n / scale) for an integer n: the float quotient, truncated toward
\* zero; n / 1.0 is n, and -n / scale is -(n / scale).
int_of_quotient(n, scale) ==
    IF n = 0 \/ scale = F64One THEN n
    ELSE (IF n < 0 THEN -1 ELSE 1) * F64Int(F64Div(F64OfInt(Abs(n)), scale))

\* The display size, the centring offsets and the division by the scale,
\* for a buffer of img_width x img_height shown at the given scale.
image_coords_at(cw, ch, img_width, img_height, canvas_x, canvas_y, scale) ==
    <<int_of_quotient(
        canvas_x - FloorDiv(cw - int_of_product(img_width, scale), 2), scale),
      int_of_quotient(
        canvas_y - FloorDiv(ch - int_of_product(img_height, scale), 2), scale)>>

\* canvas_to_image_coords without its bounds check.
canvas_to_image_coords_unchecked(s, cw, ch, canvas_x, canvas_y) ==
    IF s.processed_image = None THEN NoPixel
    ELSE image_coords_at(cw, ch, Width(s.processed_image),
                         Height(s.processed_image), canvas_x, canvas_y,
                         preview_scale(cw, ch, Width(s.processed_image),
                                       Height(s.processed_image)))

\* The bounds check: None unless 0 <= img_x < img_width and
\* 0 <= img_y < img_height.
within_bounds(at, img_width, img_height) ==
    IF at[1] < 0 \/ at[1] >= img_width \/ at[2] < 0 \/ at[2] >= img_height
    THEN NoPixel
    ELSE at

\* canvas_to_image_coords(canvas_x, canvas_y) on a cw x ch canvas.
canvas_to_image_coords(s, cw, ch, canvas_x, canvas_y) ==
    IF s.processed_image = None THEN NoPixel
    ELSE within_bounds(
           image_coords_at(cw, ch, Width(s.processed_image),
                           Height(s.processed_image), canvas_x, canvas_y,
                           preview_scale(cw, ch, Width(s.processed_image),
                                         Height(s.processed_image))),
           Width(s.processed_image), Height(s.processed_image))

\* on_canvas_click(event)
on_canvas_click(s, cw, ch, canvas_x, canvas_y) ==
    IF ~s.magic_wand_mode \/ s.processed_image = None THEN s
    ELSE LET at == canvas_to_image_coords(s, cw, ch, canvas_x, canvas_y)
         IN  IF at = NoPixel THEN s
             ELSE flood_fill_transparent(s, at[1], at[2])

\* on_magic_wand_toggle, after the checkbutton flipped the variable.
on_magic_wand_toggle(s) ==
    [s EXCEPT !.magic_wand_mode = ~s.magic_wand_mode]

\* on_tolerance_change, after the slider wrote the variable.
on_tolerance_change(s, value) == [s EXCEPT !.magic_wand_tolerance = value]

\* ------------------------------------------------- scale, inches, dpi
\* What an entry widget holds: text that float() parses to v hundredths, or
\* text it raises ValueError on.
Num(v) == [numeric |-> TRUE, value |-> v]
NotANumber == [numeric |-> FALSE, value |-> 0]

\* round(x, 2) of the exact quotient n / d of hundredths.
round2(n, d) == RoundHalfEven(n, d)

\* round(width_px / dpi, 2), in load_image.
inches_from_pixels(px, d) == round2(100 * px, d)

\* round((width_px * scale) / dpi, 2), in update_dimensions_from_scale.
inches_from_scale(px, scale, d) == round2(px * scale, d)

\* round(new_width * (orig_height / orig_width), 2) and its mirror image.
locked_inches(new, num, den) == round2(new * num, den)

\* The scale computed from the default dpi instead of the current one.
scale_from_inches_default_dpi(new, d, px) == round2(new * DEFAULT_DPI, px)

\* round((new_width * dpi) / orig_width, 2)
scale_from_inches(new, d, px) == round2(new * d, px)

\* int(self.width_inches.get() * dpi), in process_image.
target_pixels(inches, d) == TruncDiv(inches * d, 100)

\* update_dimensions_from_scale without the height.
update_dimensions_from_scale_width_only(s) ==
    IF s.original_image # None /\ ~s.updating_dimensions
    THEN [s EXCEPT
            !.width_inches = inches_from_scale(Width(s.original_image),
                                               s.scale_factor, s.dpi)]
    ELSE s

\* update_dimensions_from_scale
update_dimensions_from_scale(s) ==
    IF s.original_image # None /\ ~s.updating_dimensions
    THEN [s EXCEPT
            !.width_inches = inches_from_scale(Width(s.original_image),
                                               s.scale_factor, s.dpi),
            !.height_inches = inches_from_scale(Height(s.original_image),
                                                s.scale_factor, s.dpi)]
    ELSE s

\* on_scale_change(value): the slider has already written value, unrounded,
\* into scale_factor, the variable it is bound to.
on_scale_change(s, value) ==
    update_dimensions_from_scale([s EXCEPT !.scale_factor = value])

\* on_scale_entry
on_scale_entry(s, text) ==
    IF ~text.numeric THEN s
    ELSE LET scale == IF text.value < 10 THEN 10
                      ELSE IF text.value > 2000 THEN 2000
                      ELSE text.value
         IN  update_dimensions_from_scale([s EXCEPT !.scale_factor = scale])

\* on_threshold_change: the slider has written the variable; the handler
\* only redraws the label.
on_threshold_change(s, value) == [s EXCEPT !.white_threshold = value]

\* on_width_change with the test new_width < 0 in place of new_width <= 0.
on_width_change_accepts_zero(s, text) ==
    IF s.updating_dimensions \/ s.original_image = None THEN s
    ELSE IF ~text.numeric THEN s
    ELSE IF text.value < 0 THEN s
    ELSE
      LET new_width == text.value
          orig_width == Width(s.original_image)
          orig_height == Height(s.original_image)
      IN  [s EXCEPT
             !.width_inches = new_width,
             !.height_inches = IF s.lock_aspect_ratio
                               THEN locked_inches(new_width, orig_height, orig_width)
                               ELSE s.height_inches,
             !.scale_factor = scale_from_inches(new_width, s.dpi, orig_width)]

\* on_width_change
on_width_change(s, text) ==
    IF s.updating_dimensions \/ s.original_image = None THEN s
    ELSE IF ~text.numeric THEN s
    ELSE IF text.value <= 0 THEN s
    ELSE
      LET new_width == text.value
          orig_width == Width(s.original_image)
          orig_height == Height(s.original_image)
      IN  [s EXCEPT
             !.width_inches = new_width,
             !.height_inches = IF s.lock_aspect_ratio
                               THEN locked_inches(new_width, orig_height, orig_width)
                               ELSE s.height_inches,
             !.scale_factor = scale_from_inches(new_width, s.dpi, orig_width)]

\* on_height_change
on_height_change(s, text) ==
    IF s.updating_dimensions \/ s.original_image = None THEN s
    ELSE IF ~text.numeric THEN s
    ELSE IF text.value <= 0 THEN s
    ELSE
      LET new_height == text.value
          orig_width == Width(s.original_image)
          orig_height == Height(s.original_image)
      IN  [s EXCEPT
             !.height_inches = new_height,
             !.width_inches = IF s.lock_aspect_ratio
                              THEN locked_inches(new_height, orig_width, orig_height)
                              ELSE s.width_inches,
             !.scale_factor = scale_from_inches(new_height, s.dpi, orig_height)]

\* ------------------------------------------------------- reprocessing
RemovalOf(kind, img, s) ==
    [kind |-> kind, size |-> img.size, resampled |-> img.resampled,
     original_size |-> s.original_image.size]

\* process_image from "Calculate target size in pixels" on, given the
\* buffer background removal left.
resample_step(s, img) ==
    LET target_width == target_pixels(s.width_inches, s.dpi)
        target_height == target_pixels(s.height_inches, s.dpi)
    IN  IF target_width > 0 /\ target_height > 0
        THEN resize(img, target_width, target_height)
        ELSE img

\* process_image resampling before it removes the background.
process_input_resampled(s) == resample_step(s, s.original_image)

\* process_image starting from the original itself, not from a copy.
process_input_no_copy(s) == s.original_image

\* process_image: "img = self.original_image.copy()", the buffer background
\* removal is given.
process_input(s) == copy(s.original_image)

\* update_preview from "self.processed_image = self.process_image()" on,
\* once process_image has its background removed.
finish_update(s, img) ==
    [s EXCEPT !.processed_image = resample_step(s, img),
              !.processing = FALSE,
              !.pc = "idle",
              !.ai_img = None,
              !.ai_from = <<0, 0>>]

\* update_preview, up to the point where it either returns or waits in
\* root.update().
update_preview(s) ==
    IF s.original_image = None THEN s
    ELSE IF s.processing THEN s
    ELSE
      LET s1 == [s EXCEPT !.processing = TRUE, !.edit_history = <<>>]
          img == process_input(s1)
      IN  IF ~Decodes(s1.original_image)
          THEN s1     \* process_image raises in .copy(), update_preview ends there
          ELSE IF ~s1.remove_background THEN finish_update(s1, img)
          ELSE IF s1.bg_removal_method = "ai" /\ s1.AI_AVAILABLE
          THEN IF s1.bg_removed_cache # None
               THEN finish_update(s1, copy(s1.bg_removed_cache))
               ELSE [s1 EXCEPT !.pc = "ai_pump", !.ai_img = img,
                               !.ai_from = s1.original_image.size]
          ELSE LET out == remove_white_background(img, s1.white_threshold)
               IN  finish_update(
                     InPlace([s1 EXCEPT !.removal = RemovalOf("threshold", img, s1)],
                             out),
                     out)

\* remove_background_ai letting the backend's exception through: the request
\* is abandoned where it stood.
update_preview_resume_raises(s, ok) ==
    IF ok
    THEN LET result == bg_remove(s.ai_img)
         IN  finish_update([s EXCEPT !.bg_removed_cache = copy(result)], result)
    ELSE [s EXCEPT !.pc = "idle", !.ai_img = None, !.ai_from = <<0, 0>>]

\* remove_background_ai after root.update() returned, and the rest of
\* update_preview: the backend answers (ok) or raises.
update_preview_resume(s, ok) ==
    IF ok
    THEN LET result == bg_remove(s.ai_img)
         IN  finish_update(
               [s EXCEPT !.bg_removed_cache = copy(result),
                         !.removal = [kind |-> "ai", size |-> s.ai_img.size,
                                      resampled |-> s.ai_img.resampled,
                                      original_size |-> s.ai_from]],
               result)
    ELSE LET out == remove_white_background(s.ai_img, s.white_threshold)
         IN  finish_update(
               InPlace([s EXCEPT !.removal =
                                   [kind |-> "threshold", size |-> s.ai_img.size,
                                    resampled |-> s.ai_img.resampled,
                                    original_size |-> s.ai_from]],
                       out),
               out)

\* on_method_change, after the radio button wrote the variable.
on_method_change(s, method) ==
    [s EXCEPT !.bg_removal_method = method, !.bg_removed_cache = None]

\* on_bg_toggle that does not regenerate.
on_bg_toggle_no_update(s) == [s EXCEPT !.remove_background = ~s.remove_background]

\* on_bg_toggle, after the checkbutton flipped the variable.
on_bg_toggle(s) ==
    update_preview([s EXCEPT !.remove_background = ~s.remove_background])

\* The dpi combobox: a selection writes dpi and calls update_preview.
on_dpi_selected(s, value) == update_preview([s EXCEPT !.dpi = value])

\* load_image(file_path), the file decoding to img.
load_image(s, img) ==
    update_preview(
      [s EXCEPT !.original_image = Opened(img),
                !.bg_removed_cache = None,
                !.edit_history = <<>>,
                !.width_inches = inches_from_pixels(Width(img), s.dpi),
                !.height_inches = inches_from_pixels(Height(img), s.dpi),
                !.scale_factor = 100])

\* ------------------------------------------------------------- inputs
White == <<255, 255, 255>>
Dark == <<10, 20, 30>>

\* A 3 x 3 RGB image: a dark pixel inside a white frame.
ImgA == Buffer(3, 3, "RGB",
               <<White, White, White,
                 White, Dark,  White,
                 White, White, White>>)

\* A one-row RGB strip of alternating dark and white pixels.
ImgStrip == Buffer(StripLen, 1, "RGB",
                   [i \in 1..StripLen |-> IF i % 2 = 1 THEN Dark ELSE White])

Files == {ImgA}
ThresholdValues == {240, 250}
SliderValues == {100, 200}
Methods == {"ai", "threshold"}
SessionScaleTexts == {Num(200), NotANumber}

\* Two RGB images of unequal sides.  With these and the texts below no
\* quotient that round(x, 2) is applied to lies halfway between two
\* hundredths, where the binary value of the float decides the direction.
ImgTall == Buffer(2, 4, "RGB", [i \in 1..8 |-> IF i = 1 THEN Dark ELSE White])
ImgWide == Buffer(4, 2, "RGB", [i \in 1..8 |-> IF i = 8 THEN Dark ELSE White])
DimFiles == {ImgTall, ImgWide}
DimScaleTexts == {NotANumber, Num(-500), Num(0), Num(300), Num(2500)}
DimInchTexts == {NotANumber, Num(-100), Num(0), Num(2), Num(4)}

\* A 3 x 3 RGBA image, opaque: a dark pixel inside a white frame.
ImgC == Buffer(3, 3, "RGBA",
               [i \in 1..9 |-> (IF i = 5 THEN Dark ELSE White) \o <<255>>])

\* The files loaded where the original is followed: one of each mode.
OwnerFiles == {ImgA, ImgC}

\* RGBA buffers the flood fill is applied to on its own: every 2 x 2
\* buffer and every strip of FillLen pixels, lying and standing, over four
\* colours (10, 20 and 10 apart in red, one 11 off in blue), transparent or
\* opaque.
FillLen == 3
FillColours == {<<100, 100, 100>>, <<110, 100, 100>>, <<120, 100, 100>>,
                <<100, 100, 111>>}
FillPixels == {c \o <<a>> : c \in FillColours, a \in {0, 255}}
FillInputs ==
    {Buffer(2, 2, "RGBA", px) : px \in [1..4 -> FillPixels]}
      \cup {Buffer(FillLen, 1, "RGBA", px) : px \in [1..FillLen -> FillPixels]}
      \cup {Buffer(1, FillLen, "RGBA", px) : px \in [1..FillLen -> FillPixels]}
FillTolerances == {0, 10}

\* A 14 x 14 RGB image of single dark and white pixels in turn, and the
\* canvas sizes it is shown at, all smaller than the image.
Checker == Buffer(14, 14, "RGB",
                  [i \in 1..196 |->
                     IF (((i - 1) % 14) + ((i - 1) \div 14)) % 2 = 0
                     THEN Dark ELSE White])
Viewports == {<<9, 10>>, <<10, 9>>, <<12, 12>>}

\* The three export buttons.
ExportKinds == {1, 2, 3}

\* The files loaded where the backend's cache is followed.
CacheFiles == {ImgA, ImgTall}

\* One-row white images and scales typed into the scale entry for the
\* round trip from scale to width and back; no quotient lies halfway.
Row(w) == Buffer(w, 1, "RGB", [i \in 1..w |-> White])
RoundTripWidths == {1, 5, 7, 12, 24, 29}
RoundTripScales == {10, 100, 101, 333, 2000}

\* Inputs of the threshold pass: every buffer of at most PassLen pixels, as
\* a row or as a column, over a few colours around the thresholds and, with
\* an alpha channel, a few alpha values.
PassColours ==
    {White, <<240, 240, 240>>, <<240, 239, 255>>, <<200, 255, 199>>, Dark}
PassAlphas == {0, 128, 255}
PassThresholds == {0, 200, 240, 255}
PassPixels(mode) ==
    IF mode = "RGB" THEN PassColours
    ELSE {c \o <<a>> : c \in PassColours, a \in PassAlphas}
PassInputs ==
    UNION {{Buffer(n, 1, mode, px) : px \in [1..n -> PassPixels(mode)]}
             \cup {Buffer(1, n, mode, px) : px \in [1..n -> PassPixels(mode)]} :
           n \in 1..PassLen, mode \in {"RGB", "RGBA"}}

\* Canvas points the mouse is clicked at: a diagonal through the centre.
ClickPoints == {<<CanvasW \div 2 + i, CanvasH \div 2 + i>> : i \in {-4, -2, -1}}

\* The leftmost pixel of a one-row buffer that is not transparent, or its
\* width when every pixel is.
FirstOpaque(img) ==
    LET opaque == {x \in 0..(Width(img) - 1) :
                     img.mode = "RGB" \/ PixelAt(img, x, 0)[4] # 0}
    IN  IF opaque = {} THEN Width(img)
        ELSE CHOOSE x \in opaque : \A z \in opaque : x <= z

\* Where pixel (x, y) of the processed buffer is drawn on a canvas large
\* enough to show the buffer at full size.
CanvasPointOf(img, x, y) ==
    <<FloorDiv(CanvasW - Width(img), 2) + x, FloorDiv(CanvasH - Height(img), 2) + y>>

\* A left-to-right sweep over a strip: the next pixel still opaque, and the
\* position just before it.
SweepPoints ==
    IF processed_image = None THEN {<<0, 0>>}
    ELSE LET f == FirstOpaque(processed_image)
         IN  {CanvasPointOf(processed_image, x, 0) :
                x \in {f - 1, f} \cap (-1..(Width(processed_image) - 1))}

\* ------------------------------------------------------- observation
\* min(cw / w, ch / h, 1) as the fraction <<numerator, denominator>> it is.
scale_fraction(cw, ch, w, h) ==
    IF cw >= w /\ ch >= h THEN <<1, 1>>
    ELSE IF cw * h <= ch * w THEN <<cw, w>>
    ELSE <<ch, h>>

\* The pixel a point of a cw x ch canvas shows: floor((p - offset) / scale)
\* inside the buffer, NoPixel outside it or with no buffer.
ShownPixel(img, cw, ch, canvas_x, canvas_y) ==
    IF img = None THEN NoPixel
    ELSE
      LET sc == scale_fraction(cw, ch, Width(img), Height(img))
          dw == FloorDiv(Width(img) * sc[1], sc[2])
          dh == FloorDiv(Height(img) * sc[1], sc[2])
          x == FloorDiv((canvas_x - FloorDiv(cw - dw, 2)) * sc[2], sc[1])
          y == FloorDiv((canvas_y - FloorDiv(ch - dh, 2)) * sc[2], sc[1])
      IN  IF x < 0 \/ x >= Width(img) \/ y < 0 \/ y >= Height(img)
          THEN NoPixel
          ELSE <<x, y>>

SeedOf(img, canvas_x, canvas_y) ==
    ShownPixel(img, CanvasW, CanvasH, canvas_x, canvas_y)

\* What a click lands on: 0 nothing (outside the buffer), 1 a transparent
\* pixel, 2 any other pixel.
SeedClass(img, seed) ==
    IF seed = NoPixel THEN 0
    ELSE IF img.mode = "RGBA" /\ PixelAt(img, seed[1], seed[2])[4] = 0 THEN 1
    ELSE 2

\* What an entry holds: 0 text that is no number, 1 a number <= 0, 2 a
\* positive number.
TextClass(text) ==
    IF ~text.numeric THEN 0 ELSE IF text.value <= 0 THEN 1 ELSE 2

Op(name, arg) == [op |-> name, arg |-> arg]

NoRun == [pre |-> <<>>, undos |-> 0]
\* The value of run in a specification that does not follow the runs.
Unfollowed == [pre |-> <<>>, undos |-> -1]

\* The run of consecutive effective flood fills, then undos, that the step
\* from Self to s2 extends or ends.  pre holds the buffers that were live
\* just before each of the (at most max_history) latest fills of the run.
RunAfter(name, s2) ==
    IF run = Unfollowed THEN run
    ELSE IF name = "click" /\ s2.processed_image # processed_image
    THEN IF run.undos > 0 THEN [pre |-> <<processed_image>>, undos |-> 0]
         ELSE [pre |-> Append(IF Len(run.pre) >= max_history
                              THEN Tail(run.pre) ELSE run.pre,
                              processed_image),
               undos |-> 0]
    ELSE IF name = "undo" /\ Len(edit_history) > 0 /\ run.undos < Len(run.pre)
    THEN [run EXCEPT !.undos = run.undos + 1]
    ELSE NoRun

\* ------------------------------------------------------------ actions
\* The step that leaves the application as s2, made by handler name.
Fits(s2) ==
    /\ Width(s2.processed_image) * Height(s2.processed_image) <= MaxPixels
    /\ Width(s2.processed_image) <= CanvasW
    /\ Height(s2.processed_image) <= CanvasH

Apply(s2) ==
    /\ AI_AVAILABLE' = s2.AI_AVAILABLE
    /\ original_image' = s2.original_image
    /\ processed_image' = s2.processed_image
    /\ bg_removed_cache' = s2.bg_removed_cache
    /\ edit_history' = s2.edit_history
    /\ magic_wand_mode' = s2.magic_wand_mode
    /\ magic_wand_tolerance' = s2.magic_wand_tolerance
    /\ scale_factor' = s2.scale_factor
    /\ white_threshold' = s2.white_threshold
    /\ remove_background' = s2.remove_background
    /\ bg_removal_method' = s2.bg_removal_method
    /\ width_inches' = s2.width_inches
    /\ height_inches' = s2.height_inches
    /\ dpi' = s2.dpi
    /\ lock_aspect_ratio' = s2.lock_aspect_ratio
    /\ updating_dimensions' = s2.updating_dimensions
    /\ processing' = s2.processing
    /\ pc' = s2.pc
    /\ ai_img' = s2.ai_img
    /\ ai_from' = s2.ai_from
    /\ removal' = s2.removal

Handled(name, arg, s2) ==
    /\ Fits(s2)
    /\ Apply(s2)
    /\ lastOp' = Op(name, arg)
    /\ run' = RunAfter(name, s2)

\* Handlers run from the main loop, or from root.update() while a reprocess
\* waits in remove_background_ai.
Load(img) == Handled("load", <<>>, load_image(Self, img))

UpdateButton == Handled("update", <<>>, update_preview(Self))

BgToggle == Handled("bg_toggle", <<>>, on_bg_toggle(Self))

MethodChange(m) ==
    /\ m = "ai" => AI_AVAILABLE      \* the AI radio button is disabled
    /\ m # bg_removal_method
    /\ Handled("method", <<>>, on_method_change(Self, m))

ThresholdChange(v) ==
    /\ v # white_threshold
    /\ Handled("threshold", <<>>, on_threshold_change(Self, v))

ScaleSlider(v) == Handled("scale_slider", <<>>, on_scale_change(Self, v))

ScaleEntry(text) ==
    Handled("scale_entry", <<TextClass(text)>>,
            on_scale_entry(Self, text))

WidthEntry(text) ==
    Handled("width_entry", <<TextClass(text)>>,
            on_width_change(Self, text))

HeightEntry(text) ==
    Handled("height_entry", <<TextClass(text)>>,
            on_height_change(Self, text))

\* <Return> or <FocusOut> in the width entry while it still shows the text
\* update_dimensions_from_scale put there, str(new_width_inches).
WidthReentry ==
    Handled("width_reentry", <<TextClass(Num(width_inches)), scale_factor>>,
            on_width_change(Self, Num(width_inches)))

LockToggle ==
    Handled("lock", <<>>, [Self EXCEPT !.lock_aspect_ratio = ~lock_aspect_ratio])

DpiSelect(v) ==
    /\ v # dpi
    /\ Handled("dpi", <<>>, on_dpi_selected(Self, v))

WandToggle == Handled("wand", <<>>, on_magic_wand_toggle(Self))

ToleranceChange(v) ==
    /\ v # magic_wand_tolerance
    /\ Handled("tolerance", <<>>, on_tolerance_change(Self, v))

Click(p) ==
    Handled("click", <<SeedClass(processed_image, SeedOf(processed_image, p[1], p[2]))>>,
            on_canvas_click(Self, CanvasW, CanvasH, p[1], p[2]))

Undo == Handled("undo", <<>>, undo_edit(Self))

\* One of the export buttons: JPEG, TIFF, both.
Export(kind) ==
    Handled("export", <<kind>>,
            IF kind = 1 THEN export_jpeg(Self)
            ELSE IF kind = 2 THEN export_tiff(Self)
            ELSE export_both(Self))

\* root.update() returns and the backend call ends, well (ok) or not.
BackendReturns(ok) ==
    /\ pc = "ai_pump"
    /\ Handled("backend", <<IF ok THEN 1 ELSE 0>>, update_preview_resume(Self, ok))

\* ------------------------------------------------------ specifications
\* The application in state s, nothing handled yet.
InitAs(s, following) ==
        /\ AI_AVAILABLE = s.AI_AVAILABLE
        /\ original_image = s.original_image
        /\ processed_image = s.processed_image
        /\ bg_removed_cache = s.bg_removed_cache
        /\ edit_history = s.edit_history
        /\ magic_wand_mode = s.magic_wand_mode
        /\ magic_wand_tolerance = s.magic_wand_tolerance
        /\ scale_factor = s.scale_factor
        /\ white_threshold = s.white_threshold
        /\ remove_background = s.remove_background
        /\ bg_removal_method = s.bg_removal_method
        /\ width_inches = s.width_inches
        /\ height_inches = s.height_inches
        /\ dpi = s.dpi
        /\ lock_aspect_ratio = s.lock_aspect_ratio
        /\ updating_dimensions = s.updating_dimensions
        /\ processing = s.processing
        /\ pc = s.pc
        /\ ai_img = s.ai_img
        /\ ai_from = s.ai_from
        /\ removal = s.removal
        /\ lastOp = Op("init", <<>>)
        /\ run = following

InitWith(ai, following) == InitAs(NewApp(ai), following)

\* The session: both images, both removal methods, the wand and the undo.
Init == \E ai \in BOOLEAN : InitWith(ai, Unfollowed)

Next ==
    \/ \E img \in Files : Load(img)
    \/ UpdateButton
    \/ BgToggle
    \/ \E m \in Methods : MethodChange(m)
    \/ \E v \in ThresholdValues : ThresholdChange(v)
    \/ \E v \in SliderValues : ScaleSlider(v)
    \/ \E text \in SessionScaleTexts : ScaleEntry(text)
    \/ WandToggle
    \/ \E p \in ClickPoints : Click(p)
    \/ Undo
    \/ \E ok \in BOOLEAN : BackendReturns(ok)

Spec == Init /\ [][Next]_vars

\* The undo history at depth: a strip image swept by the wand, the backend
\* not installed.
InitHist == InitWith(FALSE, NoRun)

NextHist ==
    \/ Load(ImgStrip)
    \/ BgToggle
    \/ WandToggle
    \/ \E p \in SweepPoints : Click(p)
    \/ Undo

SpecHist == InitHist /\ [][NextHist]_vars

\* The threshold pass on its own: any input buffer, any threshold.
InitPass ==
    \E img \in PassInputs, t \in PassThresholds :
        InitAs([NewApp(FALSE) EXCEPT !.original_image = img,
                                      !.white_threshold = t], Unfollowed)

ThresholdPass ==
    /\ lastOp.op = "init"
    /\ Apply([Self EXCEPT !.processed_image =
                 remove_white_background(original_image, white_threshold)])
    /\ lastOp' = Op("threshold_pass", <<>>)
    /\ run' = run

NextPass == ThresholdPass

SpecThreshold == InitPass /\ [][NextPass]_vars

\* The scale, the inches and the dpi: the entries, the slider, the lock and
\* the dpi list, the backend not installed.
InitDims == InitWith(FALSE, Unfollowed)

NextDims ==
    \/ \E img \in DimFiles : Load(img)
    \/ \E v \in SliderValues : ScaleSlider(v)
    \/ \E text \in DimScaleTexts : ScaleEntry(text)
    \/ \E text \in DimInchTexts : WidthEntry(text)
    \/ \E text \in DimInchTexts : HeightEntry(text)
    \/ LockToggle
    \/ \E v \in DpiValues : DpiSelect(v)

SpecDims == InitDims /\ [][NextDims]_vars

\* From a scale to the width it gives and back: a dpi is selected, an image
\* loaded, a scale typed in and the width entry confirmed as it stands.
InitRoundTrip == InitWith(FALSE, Unfollowed)

NextRoundTrip ==
    \/ \E v \in DpiValues : lastOp.op = "init" /\ DpiSelect(v)
    \/ \E w \in RoundTripWidths : original_image = None /\ Load(Row(w))
    \/ \E v \in RoundTripScales : lastOp.op = "load" /\ ScaleEntry(Num(v))
    \/ lastOp.op = "scale_entry" /\ WidthReentry

SpecRoundTrip == InitRoundTrip /\ [][NextRoundTrip]_vars

\* The backend and its cache: two files, the backend installed, loads and
\* changes of method arriving at any time, also while a call is in progress.
InitCache == InitWith(TRUE, Unfollowed)

NextCache ==
    \/ \E img \in CacheFiles : Load(img)
    \/ UpdateButton
    \/ BgToggle
    \/ \E m \in Methods : MethodChange(m)
    \/ \E ok \in BOOLEAN : BackendReturns(ok)

SpecCache == InitCache /\ [][NextCache]_vars

\* The original buffer under every operation: both modes of file, both
\* removal methods, the wand, the undo and the export.
InitOwner == \E ai \in BOOLEAN : InitWith(ai, Unfollowed)

NextOwner ==
    \/ \E img \in OwnerFiles : Load(img)
    \/ UpdateButton
    \/ BgToggle
    \/ \E m \in Methods : MethodChange(m)
    \/ WandToggle
    \/ \E p \in ClickPoints : Click(p)
    \/ Undo
    \/ \E kind \in ExportKinds : Export(kind)
    \/ \E ok \in BOOLEAN : BackendReturns(ok)

SpecOwner == InitOwner /\ [][NextOwner]_vars

\* The flood fill on its own: any buffer, any seed inside it, any tolerance.
InitFill ==
    \E img \in FillInputs, tol \in FillTolerances :
        InitAs([NewApp(FALSE) EXCEPT !.processed_image = img,
                                      !.magic_wand_tolerance = tol], Unfollowed)

\* flood_fill_transparent(x, y).  Observed with it: the count the status
\* label shows ("Removed n pixels"), the number of pixels the loop examined
\* and the size of visited when it ended; all 0 when the seed is
\* transparent and the loop is not entered.
FloodFill ==
    /\ lastOp.op = "init"
    /\ \E x \in 0..(Width(processed_image) - 1),
          y \in 0..(Height(processed_image) - 1) :
          LET target_color == PixelAt(processed_image, x, y)
              r == flood_fill_loop(processed_image, x, y, target_color,
                                   magic_wand_tolerance)
          IN  /\ Apply(flood_fill_transparent(Self, x, y))
              /\ lastOp' = Op("fill",
                     IF target_color[4] = 0 THEN <<x, y, 0, 0, 0>>
                     ELSE <<x, y, r.pixels_changed, r.evals,
                            Cardinality(r.visited)>>)
    /\ run' = run

NextFill == FloodFill

SpecFill == InitFill /\ [][NextFill]_vars

\* Clicks on a preview smaller than the buffer.  The session so far: 72 dpi
\* selected, the 14 x 14 file loaded (0.19 in, 13 pixels), 0.2 typed as the
\* width with the aspect ratio locked, Update Preview pressed (14 pixels),
\* the wand switched on.
InitClick ==
    InitAs(on_magic_wand_toggle(
             update_preview(
               on_width_change(
                 load_image(on_dpi_selected(NewApp(FALSE), 72), Checker),
                 Num(20)))),
           Unfollowed)

\* A click at point p of a canvas of size vp.
ClickAt(vp, p) ==
    /\ lastOp.op = "init"
    /\ Apply(on_canvas_click(Self, vp[1], vp[2], p[1], p[2]))
    /\ lastOp' = Op("click_at", <<vp[1], vp[2], p[1], p[2]>>)
    /\ run' = run

NextClick ==
    \E vp \in Viewports :
        \E p \in (0..(vp[1] - 1)) \X (0..(vp[2] - 1)) : ClickAt(vp, p)

SpecClick == InitClick /\ [][NextClick]_vars

\* The files opened where the in-flight guard is followed: one that decodes
\* and the same one cut short.
GuardFiles == {ImgA, Truncated(ImgA)}

\* The in-flight guard: every handler that asks for a reprocess, the
\* backend succeeding and failing.
InitGuard == \E ai \in BOOLEAN : InitWith(ai, Unfollowed)

NextGuard ==
    \/ \E img \in GuardFiles : Load(img)
    \/ UpdateButton
    \/ BgToggle
    \/ \E m \in Methods : MethodChange(m)
    \/ \E v \in ThresholdValues : ThresholdChange(v)
    \/ \E v \in SliderValues : ScaleSlider(v)
    \/ \E ok \in BOOLEAN : BackendReturns(ok)

\* bg.remove is a synchronous call: it returns or raises.
FairGuard == WF_vars(\E ok \in BOOLEAN : BackendReturns(ok))

SpecGuard == InitGuard /\ [][NextGuard]_vars /\ FairGuard

\* ------------------------------------------------------------- claims
\* C1: a flood fill whose seed pixel already has alpha 0 changes no pixel of
\* the processed buffer and leaves the history stack exactly as it was, at
\* every history size from 0 to max_history.
C1_TransparentSeedChangesNothing ==
    [][(lastOp'.op = "click" /\ lastOp'.arg = <<1>>)
         => (processed_image' = processed_image /\ edit_history' = edit_history)]_vars

\* C2: while a reprocess is in flight (update_preview waits in
\* root.update()), an arriving reprocess, click or undo request changes
\* neither the processed buffer nor the history stack.
C2_InFlightRequestsDropped ==
    [][(pc = "ai_pump" /\ lastOp'.op \in {"update", "bg_toggle", "click", "undo"})
         => (processed_image' = processed_image /\ edit_history' = edit_history)]_vars

\* What update_preview leaves in processed_image when it runs through on the
\* parameters of s: the original (threshold pass applied, or replaced by the
\* cached backend result, when background removal is on), resampled; None
\* when the backend's result is called for and the cache holds none.
Regenerated(s) ==
    LET img == IF ~s.remove_background THEN copy(s.original_image)
               ELSE IF s.bg_removal_method = "ai" /\ s.AI_AVAILABLE
               THEN s.bg_removed_cache
               ELSE remove_white_background(copy(s.original_image),
                                            s.white_threshold)
    IN  IF img = None THEN None ELSE resample_step(s, img)

ParameterOps == {"method", "threshold", "scale_slider", "scale_entry"}

C3_ToggleRegenerates ==
    (original_image # None /\ pc = "idle" /\ lastOp.op = "bg_toggle")
      => (edit_history = <<>> /\ processed_image = Regenerated(Self))

C4_HistoryBounded ==
    /\ [](Len(edit_history) <= max_history)
    /\ [][(lastOp'.op = "click" /\ processed_image' # processed_image
             /\ Len(edit_history) = max_history)
            => edit_history' = Append(Tail(edit_history), processed_image)]_vars

\* A full stack whose oldest snapshot already lacks a pixel: the snapshot of
\* the untouched buffer has been evicted by a push.
C4_Witness ==
    /\ Len(edit_history) = max_history
    /\ lastOp = Op("click", <<2>>)
    /\ FirstOpaque(edit_history[1]) > 0

\* C5: after k <= max_history effective flood fills in a row, each undo of
\* the k that follow restores the buffer that was live just before the
\* corresponding fill, newest first, pixel for pixel.
C5_UndoRestoresInReverse ==
    run.undos > 0 => processed_image = run.pre[Len(run.pre) - run.undos + 1]

C5_Witness ==
    /\ Len(run.pre) = max_history
    /\ run.undos = max_history
    /\ lastOp.op = "undo"

\* C6 as stated: every background-removal step (threshold pass, backend
\* call, flood fill) is given a buffer of the original's size that is not an
\* output of the resample step.
C6_RemovalBeforeResample ==
    removal.kind # "none"
      => (~removal.resampled /\ removal.size = removal.original_size)

\* C6 amended: the threshold pass and the backend call of a reprocess are
\* given a copy of the original, of its size and not resampled; a flood fill
\* is given the processed buffer, the output of that reprocess.
C6_ReprocessRemovesBeforeResample ==
    /\ removal.kind \in {"threshold", "ai"}
         => (~removal.resampled /\ removal.size = removal.original_size)
    /\ removal.kind = "flood"
         => (removal.size = processed_image.size
             /\ removal.resampled = processed_image.resampled)

C6_Witness ==
    /\ removal.kind = "threshold"
    /\ processed_image.resampled
    /\ processed_image.size # original_image.size

Bright(item, t) == item[1] >= t /\ item[2] >= t /\ item[3] >= t

SameRGB(a, b) == a[1] = b[1] /\ a[2] = b[2] /\ a[3] = b[3]

C8_KeptPixelsOpaque ==
    lastOp.op = "threshold_pass"
      => /\ processed_image.size = original_image.size
         /\ \A i \in 1..Len(original_image.px) :
              IF Bright(original_image.px[i], white_threshold)
              THEN processed_image.px[i][4] = 0
              ELSE /\ SameRGB(processed_image.px[i], original_image.px[i])
                   /\ processed_image.px[i][4] = 255

\* C8 amended: the threshold pass outputs a buffer of the input's dimensions
\* in which each pixel with R >= t, G >= t and B >= t has alpha 0 and every
\* other pixel retains its RGB and its alpha: the alpha of the input when
\* the input has an alpha channel, 255 when it has none.
C8_KeptPixelsKeepAlpha ==
    lastOp.op = "threshold_pass"
      => /\ processed_image.size = original_image.size
         /\ Len(processed_image.px) = Len(original_image.px)
         /\ \A i \in 1..Len(original_image.px) :
              IF Bright(original_image.px[i], white_threshold)
              THEN processed_image.px[i][4] = 0
              ELSE /\ SameRGB(processed_image.px[i], original_image.px[i])
                   /\ processed_image.px[i][4] =
                        IF original_image.mode = "RGBA"
                        THEN original_image.px[i][4] ELSE 255

\* A pass over an RGBA input that clears an opaque pixel and keeps a
\* half-transparent one.
C8_Witness ==
    /\ lastOp.op = "threshold_pass"
    /\ original_image.mode = "RGBA"
    /\ \E i, j \in 1..Len(original_image.px) :
         /\ Bright(original_image.px[i], white_threshold)
         /\ original_image.px[i][4] = 255
         /\ processed_image.px[i][4] = 0
         /\ ~Bright(original_image.px[j], white_threshold)
         /\ original_image.px[j][4] = 128
         /\ processed_image.px[j][4] = 128

\* v hundredths of an inch is the exact value n / d rounded to two decimals.
RoundsTo(v, n, d) == 2 * Abs(v * d - n) <= d

\* v hundredths of an inch is within a hundredth of such a rounding.
NearlyRoundsTo(v, n, d) == 2 * Abs(v * d - n) <= 3 * d

SetterReturned ==
    \/ lastOp.op \in {"scale_slider", "dpi"}
    \/ lastOp.op = "scale_entry" /\ lastOp.arg # <<0>>
    \/ lastOp.op \in {"width_entry", "height_entry"} /\ lastOp.arg = <<2>>

\* C9 as stated: after the scale slider, the scale entry, the width entry,
\* the height entry or a dpi selection has returned successfully, with the
\* lock on or off, widthInches and heightInches are what scaleFactor and the
\* current dpi determine from the original pixel dimensions, within
\* 2-decimal rounding.
C9_SettersKeepConsistent ==
    (original_image # None /\ SetterReturned)
      => /\ NearlyRoundsTo(width_inches,
                           Width(original_image) * scale_factor, dpi)
         /\ NearlyRoundsTo(height_inches,
                           Height(original_image) * scale_factor, dpi)

\* C9 amended: after the scale slider or the scale entry has returned
\* successfully with an image loaded, widthInches and heightInches are the
\* original pixel width and height times scaleFactor over the current dpi,
\* rounded to two decimals.
C9_ScaleSettersKeepConsistent ==
    (original_image # None
       /\ (lastOp.op = "scale_slider"
            \/ (lastOp.op = "scale_entry" /\ lastOp.arg # <<0>>)))
      => /\ RoundsTo(width_inches, Width(original_image) * scale_factor, dpi)
         /\ RoundsTo(height_inches, Height(original_image) * scale_factor, dpi)

\* A scale typed in at a dpi other than the default, after the lock was
\* taken off: both inch values follow.
C9_Witness ==
    /\ original_image # None
    /\ lastOp = Op("scale_entry", <<2>>)
    /\ dpi # DEFAULT_DPI
    /\ ~lock_aspect_ratio
    /\ scale_factor = 300
    /\ width_inches = inches_from_scale(Width(original_image), 300, dpi)
    /\ width_inches # height_inches

\* C10 as stated: a scale, width or height entry that holds no number or a
\* number <= 0 leaves scaleFactor, widthInches and heightInches as they
\* were.
C10_BadInputRejected ==
    [][(lastOp'.op \in {"scale_entry", "width_entry", "height_entry"}
          /\ lastOp'.arg \in {<<0>>, <<1>>})
         => UNCHANGED <<scale_factor, width_inches, height_inches>>]_vars

\* C10 amended: a width or height entry that holds no number or a number
\* <= 0, and a scale entry that holds no number, leave scaleFactor,
\* widthInches and heightInches as they were; a scale entry that holds a
\* number <= 0 is not rejected: scaleFactor becomes 0.1 and, with an image
\* loaded, the inches follow.
C10_BadInputRejectedOrClamped ==
    /\ [][((lastOp'.op \in {"width_entry", "height_entry"}
              /\ lastOp'.arg \in {<<0>>, <<1>>})
           \/ (lastOp'.op = "scale_entry" /\ lastOp'.arg = <<0>>))
            => UNCHANGED <<scale_factor, width_inches, height_inches>>]_vars
    /\ [][(lastOp'.op = "scale_entry" /\ lastOp'.arg = <<1>>)
            => /\ scale_factor' = 10
               /\ original_image # None
                    => /\ RoundsTo(width_inches',
                                    Width(original_image) * 10, dpi)
                       /\ RoundsTo(height_inches',
                                    Height(original_image) * 10, dpi)
               /\ original_image = None
                    => UNCHANGED <<width_inches, height_inches>>]_vars

\* A width entry holding a number <= 0, with an image loaded and at a scale
\* other than the one the image was loaded at.
C10_Witness ==
    /\ lastOp = Op("width_entry", <<1>>)
    /\ original_image # None
    /\ width_inches > 0
    /\ scale_factor # 100

\* C11 as stated: setting the scale to s and then passing the resulting
\* widthInches to the width setter yields a scaleFactor equal to s.
C11_RoundTripExact ==
    lastOp.op = "width_reentry" => scale_factor = lastOp.arg[2]

\* C11 amended: the scaleFactor s' that results differs from s by at most
\* 0.005 * (1 + dpi / origW), the two roundings to two decimals; when the
\* width that s gives rounds to 0.00 the width setter rejects it and the
\* scaleFactor stays s.
C11_RoundTripWithinRounding ==
    lastOp.op = "width_reentry"
      => /\ 2 * Width(original_image) * Abs(scale_factor - lastOp.arg[2])
              <= dpi + Width(original_image)
         /\ lastOp.arg[1] = 1 => scale_factor = lastOp.arg[2]

\* A round trip at a dpi other than the default that ends a hundredth or
\* more away from the scale it started from.
C11_Witness ==
    /\ lastOp.op = "width_reentry"
    /\ lastOp.arg[1] = 2
    /\ dpi # DEFAULT_DPI
    /\ scale_factor # lastOp.arg[2]
    /\ Width(original_image) >= 12

\* The state a reprocess that ran through has just left.
Reprocessed ==
    /\ lastOp.op \in {"load", "update", "bg_toggle", "dpi", "backend"}
    /\ pc = "idle"
    /\ original_image # None

\* C12: each reprocess resamples the buffer to exactly
\* (round(widthInches * dpi), round(heightInches * dpi)) pixels, and skips
\* the resample if and only if either of those two numbers is <= 0.
C12_ResampledToRoundedTarget ==
    Reprocessed
      => LET targetW == RoundHalfEven(width_inches * dpi, 100)
             targetH == RoundHalfEven(height_inches * dpi, 100)
         IN  IF targetW <= 0 \/ targetH <= 0
             THEN ~processed_image.resampled
             ELSE /\ processed_image.resampled
                  /\ processed_image.size = <<targetW, targetH>>

\* C13: whenever the cache holds a result, it is the backend's result for
\* the original that is loaded now, whatever loads and changes of method
\* arrived, and whenever they arrived.
C13_CacheIsOfCurrentImage ==
    bg_removed_cache # None => bg_removed_cache = bg_remove(original_image)

\* C14: no operation other than loading a new image (reprocess, threshold
\* pass, AI removal, flood fill, undo, export) changes a pixel, the
\* dimensions or the mode of the original buffer.
C14_OnlyLoadChangesOriginal ==
    [][lastOp'.op # "load"
         => /\ original_image'.px = original_image.px
            /\ original_image'.size = original_image.size
            /\ original_image'.mode = original_image.mode]_vars

\* The threshold pass has run on an RGBA original and a flood fill has then
\* changed the processed buffer.
C14_Witness ==
    /\ lastOp.op = "click"
    /\ removal.kind = "flood"
    /\ remove_background
    /\ original_image.mode = "RGBA"
    /\ processed_image.px # original_image.px

\* The threshold pass on img with the threshold of s, then the resample
\* with the inches and the dpi of s.
ThresholdFallback(s, img) ==
    resample_step(s, remove_white_background(img, s.white_threshold))

\* C15: with background removal on, when the AI backend is absent or its
\* call fails, the same reprocess request leaves as processed buffer the
\* threshold pass under the current threshold, resampled; it stores nothing
\* in the cache and it completes.
C15_FallbackIsThresholdPass ==
    [][/\ (lastOp'.op = "backend" /\ lastOp'.arg = <<0>>)
            => /\ processed_image' = ThresholdFallback(Self', ai_img)
               /\ bg_removed_cache' = bg_removed_cache
               /\ bg_removed_cache' = None
               /\ pc' = "idle" /\ ~processing'
       /\ (/\ ~AI_AVAILABLE /\ remove_background' /\ original_image' # None
           /\ lastOp'.op \in {"load", "update", "bg_toggle"})
            => /\ processed_image' = ThresholdFallback(Self', copy(original_image'))
               /\ bg_removed_cache' = None
               /\ pc' = "idle" /\ ~processing']_vars

\* The backend's call has failed after the threshold was moved, and the
\* request has completed with the threshold pass.
C15_Witness ==
    /\ lastOp.op = "backend" /\ lastOp.arg = <<0>>
    /\ remove_background
    /\ removal.kind = "threshold"
    /\ white_threshold # DEFAULT_THRESHOLD
    /\ processed_image # None
    /\ bg_removed_cache = None /\ pc = "idle" /\ ~processing

\* The backend is absent (the AI radio button is then disabled and the
\* method is "threshold") and a reprocess has completed with the threshold
\* pass.
C15_WitnessAbsent ==
    /\ ~AI_AVAILABLE /\ remove_background
    /\ lastOp.op \in {"load", "update", "bg_toggle"}
    /\ removal.kind = "threshold"
    /\ processed_image # None /\ pc = "idle"

\* C16: every reprocess request that sets the in-flight guard clears it
\* again by the time it ends, also when decoding the original, background
\* removal or resampling fails.
C16_GuardEventuallyCleared == processing ~> ~processing

\* C16, its consequence: with nothing in flight the guard is clear, so no
\* later request is dropped.
C16_GuardClearWhenIdle == pc = "idle" => ~processing

\* The pixel positions of img.
Positions(img) == (0..(Width(img) - 1)) \X (0..(Height(img) - 1))

\* The pixels of img that are not transparent and lie within tol of colour
\* c in each of the three channels.
Matching(img, c, tol) ==
    {p \in Positions(img) :
        LET q == PixelAt(img, p[1], p[2])
        IN  /\ q[4] # 0
            /\ \A k \in 1..3 : q[k] - c[k] <= tol /\ c[k] - q[k] <= tol}

Adjacent(p, q) ==
    \/ p[1] = q[1] /\ (p[2] = q[2] + 1 \/ q[2] = p[2] + 1)
    \/ p[2] = q[2] /\ (p[1] = q[1] + 1 \/ q[1] = p[1] + 1)

\* The 4-connected component of M that S lies in.
RECURSIVE Grown(_, _)
Grown(S, M) ==
    LET N == S \cup {q \in M : \E p \in S : Adjacent(p, q)}
    IN  IF N = S THEN S ELSE Grown(N, M)

\* The buffer a fill from an opaque seed has just changed, as it was before.
FilledFrom == edit_history[Len(edit_history)]

\* C17: from an in-bounds seed with alpha # 0 the flood fill sets alpha to 0
\* on exactly the 4-connected component of the seed among the pixels with
\* alpha # 0 that lie within the tolerance of the seed colour in each of R,
\* G and B; it keeps their RGB, leaves every other pixel as it was, and
\* reports the size of the component.
C17_FillIsSeedComponent ==
    (lastOp.op = "fill" /\ Len(edit_history) > 0)
      => LET before == FilledFrom
             seed == <<lastOp.arg[1], lastOp.arg[2]>>
             comp == Grown({seed},
                           Matching(before, PixelAt(before, seed[1], seed[2]),
                                    magic_wand_tolerance))
         IN  /\ processed_image.size = before.size
             /\ processed_image.mode = before.mode
             /\ \A p \in Positions(before) :
                   LET was == PixelAt(before, p[1], p[2])
                       is == PixelAt(processed_image, p[1], p[2])
                   IN  IF p \in comp
                       THEN is = <<was[1], was[2], was[3], 0>>
                       ELSE is = was
             /\ lastOp.arg[3] = Cardinality(comp)

\* A fill in a 2 x 2 buffer that took the seed alone and left the pixel
\* diagonally opposite, which matches the seed colour without being equal to
\* it, as it was.
C17_Witness ==
    /\ lastOp.op = "fill" /\ Len(edit_history) > 0
    /\ lastOp.arg[3] = 1
    /\ magic_wand_tolerance = 10
    /\ Height(FilledFrom) = 2
    /\ LET c == PixelAt(FilledFrom, lastOp.arg[1], lastOp.arg[2])
           far == PixelAt(FilledFrom, 1 - lastOp.arg[1], 1 - lastOp.arg[2])
       IN  /\ <<1 - lastOp.arg[1], 1 - lastOp.arg[2]>>
                 \in Matching(FilledFrom, c, magic_wand_tolerance)
           /\ far # c
           /\ PixelAt(processed_image, 1 - lastOp.arg[1], 1 - lastOp.arg[2]) = far

\* C20: the breadth-first traversal of the flood fill ends, and it
\* evaluates and changes each pixel coordinate at most once: the pixels
\* examined are as many as the coordinates in visited, no more than the
\* buffer has, and the pixels changed are among them.
C20_EachPixelOnce ==
    lastOp.op = "fill"
      => /\ lastOp.arg[4] = lastOp.arg[5]
         /\ lastOp.arg[4] <= Width(processed_image) * Height(processed_image)
         /\ lastOp.arg[3] <= lastOp.arg[4]

\* A fill that changed three pixels and examined a fourth it left alone:
\* coordinates were enqueued again by their neighbours and skipped.
C20_Witness ==
    /\ lastOp.op = "fill"
    /\ lastOp.arg[3] = 3
    /\ lastOp.arg[4] = 4
    /\ lastOp.arg[5] = 4

\* C18: a click maps to no pixel or to the pixel
\* (floor((px - offsetX) / scale), floor((py - offsetY) / scale)) inside the
\* buffer; a point whose floored coordinates lie outside the buffer yields
\* no pixel, so that no out-of-image click reaches the flood fill.
C18_ClickMapsToFlooredPixel ==
    [][lastOp'.op = "click_at"
         => LET a == lastOp'.arg
                seed == ShownPixel(processed_image, a[1], a[2], a[3], a[4])
            IN  IF seed = NoPixel
                THEN /\ processed_image' = processed_image
                     /\ edit_history' = edit_history
                ELSE LET s2 == flood_fill_transparent(Self, seed[1], seed[2])
                     IN  /\ processed_image' = s2.processed_image
                         /\ edit_history' = s2.edit_history]_vars

\* C18, its last part alone: a click on a point that shows no pixel of the
\* buffer changes nothing.
C18_OutsideClickIgnored ==
    [][(/\ lastOp'.op = "click_at"
        /\ ShownPixel(processed_image, lastOp'.arg[1], lastOp'.arg[2],
                      lastOp'.arg[3], lastOp'.arg[4]) = NoPixel)
         => /\ processed_image' = processed_image
            /\ edit_history' = edit_history]_vars

\* C19: with nothing in flight every snapshot in the history was taken
\* after the latest regeneration of the processed buffer and after the
\* latest load: the step that ends a regeneration, and the one that loads,
\* leave the history empty.
C19_HistoryNewerThanRegeneration ==
    [][(lastOp'.op \in {"backend", "load"} /\ pc' = "idle")
         => edit_history' = <<>>]_vars

\* C19, its last consequence: with nothing in flight no snapshot differs
\* in pixel dimensions from the live processed buffer.
C19_SnapshotsHaveLiveSize ==
    pc = "idle" => \A i \in 1..Len(edit_history) :
                      edit_history[i].size = processed_image.size

\* C21: immediately after a load (the scale reset to 1.0, no size entry
\* edited), whatever the original's pixel size and the dpi selected, the
\* regenerated processed buffer has exactly the original's pixel width and
\* height.
C21_LoadKeepsPixelSize ==
    lastOp.op = "load"
      => /\ processed_image # None
         /\ processed_image.size = original_image.size

====
